---------------------------- MODULE Spec2Model ----------------------------
(***************************************************************************)
(* xoshiro256.hpp: splitmix64, xoshiro256** (class xoshiro256ss) and       *)
(* xoshiro256+ (class xoshiro256p), with jump(), long_jump() and the       *)
(* uniform / exponential / geometric samplers.                             *)
(*                                                                         *)
(* A uint64_t is modelled at its full width as the set of the positions    *)
(* (0 = least significant .. 63) of its one-bits, so that ^, &, |, << and  *)
(* >> are set operations and + and * are carried out modulo 2^64.          *)
(***************************************************************************)
EXTENDS Integers, Sequences, FiniteSets, TLC

(***************************************************************************)
(* State                                                                   *)
(***************************************************************************)
VARIABLES
    kind,     \* the class of the generator instance: "xoshiro256ss" or "xoshiro256p"
    origin,   \* how its state was set: "default", "explicit" or "assigned"
    seeded,   \* the state s right after that
    s,        \* the member s[4]
    twin,     \* s of a xoshiro256ss started in the same state and put through
              \* the same sequence of output calls, jump() and long_jump()
    pc,       \* "idle", or "while": uniform() is at the test of its loop
    fn,       \* the public function that is running uniform(), "none" when idle
    n,        \* uniform()'s local n
    entry,    \* s when uniform() was entered
    tick,     \* the parity of the number of passes through uniform()'s loop
    ret,      \* the value the last operator() call returned
    sample,   \* the n from which the last completed uniform() computed its result
    calls,    \* the (*this)() calls the last jump() or long_jump() made
    trace,    \* the completed operations: [op, pre], pre the state s before op
    x0,       \* the seed of the splitmix64 instance
    x,        \* its member x
    z,        \* the value its last operator() call returned
    nth       \* the number of operator() calls made on it

genvars == <<kind, origin, seeded, s, twin, pc, fn, n, entry, tick, ret, sample, calls, trace>>

seedervars == <<x0, x, z, nth>>

vars == <<kind, origin, seeded, s, twin, pc, fn, n, entry, tick, ret, sample, calls, trace,
          x0, x, z, nth>>

(***************************************************************************)
(* uint64_t                                                                *)
(***************************************************************************)
WordBits == 64

Pos == 0 .. (WordBits - 1)

\* the one-bits of a 16-bit number n, moved up by off positions
Bits16(val, off) == { i + off : i \in { j \in 0 .. 15 : (val \div (2 ^ j)) % 2 = 1 } }

\* the uint64_t written 0x h3 h2 h1 h0 in four groups of four hex digits
U64(h3, h2, h1, h0) ==
    Bits16(h3, 48) \cup Bits16(h2, 32) \cup Bits16(h1, 16) \cup Bits16(h0, 0)

ZeroWord == {}

MaxWord == Pos

\* a ^ b
Xor(a, b) == (a \ b) \cup (b \ a)

\* a << k and a >> k on uint64_t, 0 <= k < 64: the bits shifted out are lost
Shl(a, k) == { i + k : i \in a \cap (0 .. (WordBits - 1 - k)) }

Shr(a, k) == { i - k : i \in a \cap (k .. (WordBits - 1)) }

\* a + b modulo 2^64: bit i of the sum is a_i ^ b_i ^ (the carry into i), and a
\* carry comes into i when some lower position j has both bits set and every
\* position between j and i has at least one set; the carry out of bit 63 is lost
AddWords(a, b) ==
    LET carry == { i \in Pos : \E j \in (a \cap b) :
                       j < i /\ \A k \in (j + 1) .. (i - 1) : k \in (a \cup b) }
    IN Xor(Xor(a, b), carry)

\* +: both operands are evaluated, once, before they are added
Add(a, b) == UNION { AddWords(w[1], w[2]) : w \in { <<a, b>> } }

\* a * c modulo 2^64: the sum of a << i over the one-bits i of c in lo .. hi,
\* added up by halves
RECURSIVE MulRange(_, _, _, _)
MulRange(a, c, lo, hi) ==
    IF lo = hi THEN (IF lo \in c THEN Shl(a, lo) ELSE {})
    ELSE LET mid == (lo + hi) \div 2
         IN Add(MulRange(a, c, lo, mid), MulRange(a, c, mid + 1, hi))

Mul(a, c) == MulRange(a, c, 0, WordBits - 1)

\* inline uint64_t rotl(const uint64_t x, int k)
rotl(a, k) == Shl(a, k) \cup Shr(a, WordBits - k)


(***************************************************************************)
(* class splitmix64                                                        *)
(***************************************************************************)
\* the constants of splitmix64::operator()
GoldenGamma == U64(\H9e37, \H79b9, \H7f4a, \H7c15)

MixMul1 == U64(\Hbf58, \H476d, \H1ce4, \He5b9)

MixMul2 == U64(\H94d0, \H49bb, \H1331, \H11eb)

\* uint64_t z = (x += 0x9e3779b97f4a7c15): the state after the call
splitmix64_advance(a) == Add(a, GoldenGamma)

\* the value splitmix64::operator() returns, z being the advanced state
\* z ^ (z >> k)
XorShr(zz, k) == Xor(zz, Shr(zz, k))

\* a slip in the line below: the shifts 30 and 27 exchanged
splitmix64_mix_swapped(zz) ==
    XorShr(Mul(XorShr(Mul(XorShr(zz, 27), MixMul1), 30), MixMul2), 31)

splitmix64_mix(zz) ==
    XorShr(Mul(XorShr(Mul(XorShr(zz, 30), MixMul1), 27), MixMul2), 31)

\* the state and the returned value, z being the advanced state
splitmix64_return(zz) == [x |-> zz, ret |-> splitmix64_mix(zz)]

\* splitmix64::operator(): the new state and the returned value
splitmix64_call(a) == splitmix64_return(splitmix64_advance(a))

(***************************************************************************)
(* class xoshiro256ss and class xoshiro256p: uint64_t s[4]                 *)
(***************************************************************************)
State4(a, b, c, d) == (0 :> a) @@ (1 :> b) @@ (2 :> c) @@ (3 :> d)

ZeroState == State4(ZeroWord, ZeroWord, ZeroWord, ZeroWord)

Five == U64(0, 0, 0, 5)

Nine == U64(0, 0, 0, 9)

\* a slip in the line below: the result taken from s[0], as xoshiro256++ does
ss_result_s0(st) == Mul(rotl(Mul(st[0], Five), 7), Nine)

\* xoshiro256ss::operator(): const uint64_t result = rotl(s[1] * 5, 7) * 9
ss_result(st) == Mul(rotl(Mul(st[1], Five), 7), Nine)

\* s[i] ^= s[j]
XorMember(st, i, j) == [st EXCEPT ![i] = Xor(st[i], st[j])]

\* s[i] ^= t
XorLocal(st, i, t) == [st EXCEPT ![i] = Xor(st[i], t)]

\* s[i] = rotl(s[i], k)
RotlMember(st, i, k) == [st EXCEPT ![i] = rotl(st[i], k)]

\* xoshiro256ss::operator(): s[2] ^= t; s[3] = rotl(s[3], 45)
ss_update_tail(st, t) == RotlMember(XorLocal(st, 2, t), 3, 45)

\* a slip in the statements below: they update a copy of s, and s stays
ss_update_on_copy(st) == st

\* xoshiro256ss::operator(): the statements that update s, in their order:
\* const uint64_t t = s[1] << 17; s[2] ^= s[0]; s[3] ^= s[1]; s[1] ^= s[2];
\* s[0] ^= s[3]; s[2] ^= t; s[3] = rotl(s[3], 45)
ss_update(st) ==
    ss_update_tail(XorMember(XorMember(XorMember(XorMember(st, 2, 0), 3, 1), 1, 2), 0, 3),
                   Shl(st[1], 17))

\* xoshiro256p::operator(): const uint64_t result = s[0]+s[3]
p_result(st) == Add(st[0], st[3])

\* a slip in the line below: the rotation by 54 instead of 45
p_update_tail_54(st, t) == RotlMember(XorLocal(st, 2, t), 3, 54)

\* xoshiro256p::operator(): s[2] ^= t; s[3] = rotl(s[3], 45)
p_update_tail(st, t) == RotlMember(XorLocal(st, 2, t), 3, 45)

\* xoshiro256p::operator(): the statements that update s, in their order:
\* const uint64_t t = s[1] << 17; s[2] ^= s[0]; s[3] ^= s[1]; s[1] ^= s[2];
\* s[0] ^= s[3]; s[2] ^= t; s[3] = rotl(s[3], 45)
p_update(st) ==
    p_update_tail(XorMember(XorMember(XorMember(XorMember(st, 2, 0), 3, 1), 1, 2), 0, 3),
                  Shl(st[1], 17))

\* (*this)(): operator() is virtual, so the call made inside uniform(), jump()
\* and long_jump() runs the operator() of the instance's own class
call_result(cls, st) == IF cls = "xoshiro256p" THEN p_result(st) ELSE ss_result(st)

call_update(cls, st) == IF cls = "xoshiro256p" THEN p_update(st) ELSE ss_update(st)

(***************************************************************************)
(* xoshiro256ss::jump and xoshiro256ss::long_jump                          *)
(***************************************************************************)
\* a slip in the table below: the last digit of its first word, b for a
JUMP_last_digit ==
    << U64(\H180e, \Hc6d3, \H3cfd, \H0abb), U64(\Hd5a6, \H1266, \Hf0c9, \H392c),
       U64(\Ha958, \H2618, \He03f, \Hc9aa), U64(\H39ab, \Hdc45, \H29b1, \H661c) >>

JUMP ==
    << U64(\H180e, \Hc6d3, \H3cfd, \H0aba), U64(\Hd5a6, \H1266, \Hf0c9, \H392c),
       U64(\Ha958, \H2618, \He03f, \Hc9aa), U64(\H39ab, \Hdc45, \H29b1, \H661c) >>

LONG_JUMP ==
    << U64(\H76e1, \H5d3e, \Hfefd, \Hcbbf), U64(\Hc500, \H4e44, \H1c52, \H2fb3),
       U64(\H7771, \H0069, \H854e, \He241), U64(\H3910, \H9bb0, \H2acb, \He635) >>

\* a slip in the line below: s0 ^= s0; s1 ^= s1; s2 ^= s2; s3 ^= s3
jump_accumulate_self(acc, st) ==
    State4(Xor(acc[0], acc[0]), Xor(acc[1], acc[1]), Xor(acc[2], acc[2]), Xor(acc[3], acc[3]))

\* jump(): s0 ^= s[0]; s1 ^= s[1]; s2 ^= s[2]; s3 ^= s[3]
jump_accumulate(acc, st) ==
    State4(Xor(acc[0], st[0]), Xor(acc[1], st[1]), Xor(acc[2], st[2]), Xor(acc[3], st[3]))

\* a slip in the body below: (*this)() inside the if, so that the state
\* advances only at the set bits
jump_body_inside_if(cls, r) ==
    [ acc   |-> IF r.b \in JUMP[r.i + 1] THEN jump_accumulate(r.acc, r.s) ELSE r.acc,
      i     |-> r.i,
      b     |-> r.b + 1,
      s     |-> IF r.b \in JUMP[r.i + 1] THEN call_update(cls, r.s) ELSE r.s,
      calls |-> IF r.b \in JUMP[r.i + 1] THEN r.calls + 1 ELSE r.calls ]

\* jump(): the body of the inner loop and its b++. r holds the locals s0..s3
\* (acc), i and b, the member s, and the number of (*this)() calls made so far
jump_body(cls, r) ==
    [ acc   |-> IF r.b \in JUMP[r.i + 1] THEN jump_accumulate(r.acc, r.s) ELSE r.acc,
      i     |-> r.i,
      b     |-> r.b + 1,
      s     |-> call_update(cls, r.s),
      calls |-> r.calls + 1 ]

\* jump(): for(int b = 0; b < 64; b++), entered with b = 0
RECURSIVE jump_bits(_, _)
jump_bits(cls, r) == IF r.b < 64 THEN jump_bits(cls, jump_body(cls, r)) ELSE r

\* jump(): for(unsigned int i = 0; i < sizeof JUMP / sizeof *JUMP; i++)
RECURSIVE jump_words(_, _)
jump_words(cls, r) ==
    IF r.i < Len(JUMP)
    THEN jump_words(cls, [jump_bits(cls, [r EXCEPT !.b = 0]) EXCEPT !.i = @ + 1])
    ELSE r

\* a slip in the stores below: s[3] = s2
jump_store_s2_twice(r) == State4(r.acc[0], r.acc[1], r.acc[2], r.acc[2])

\* jump(): s[0] = s0; s[1] = s1; s[2] = s2; s[3] = s3
jump_store(r) == State4(r.acc[0], r.acc[1], r.acc[2], r.acc[3])

\* what jump() leaves: the state and the number of (*this)() calls it made
jump_end(r) == [s |-> jump_store(r), calls |-> r.calls]

\* xoshiro256ss::jump(): uint64_t s0 = 0; s1 = 0; s2 = 0; s3 = 0; the loops; the stores
jump(cls, st) ==
    jump_end(jump_words(cls, [acc |-> ZeroState, i |-> 0, b |-> 0, s |-> st, calls |-> 0]))

\* a slip in the line below: s3 ^= s[2]
long_jump_accumulate_s2_twice(acc, st) ==
    State4(Xor(acc[0], st[0]), Xor(acc[1], st[1]), Xor(acc[2], st[2]), Xor(acc[3], st[2]))

\* long_jump(): s0 ^= s[0]; s1 ^= s[1]; s2 ^= s[2]; s3 ^= s[3]
long_jump_accumulate(acc, st) ==
    State4(Xor(acc[0], st[0]), Xor(acc[1], st[1]), Xor(acc[2], st[2]), Xor(acc[3], st[3]))

\* long_jump(): the body of the inner loop and its b++
long_jump_body(cls, r) ==
    [ acc   |-> IF r.b \in LONG_JUMP[r.i + 1] THEN long_jump_accumulate(r.acc, r.s)
                ELSE r.acc,
      i     |-> r.i,
      b     |-> r.b + 1,
      s     |-> call_update(cls, r.s),
      calls |-> r.calls + 1 ]

\* long_jump(): for(int b = 0; b < 64; b++), entered with b = 0
RECURSIVE long_jump_bits(_, _)
long_jump_bits(cls, r) ==
    IF r.b < 64 THEN long_jump_bits(cls, long_jump_body(cls, r)) ELSE r

\* long_jump(): for(unsigned int i = 0; i < sizeof LONG_JUMP / sizeof *LONG_JUMP; i++)
RECURSIVE long_jump_words(_, _)
long_jump_words(cls, r) ==
    IF r.i < Len(LONG_JUMP)
    THEN long_jump_words(cls, [long_jump_bits(cls, [r EXCEPT !.b = 0]) EXCEPT !.i = @ + 1])
    ELSE r

\* long_jump(): s[0] = s0; s[1] = s1; s[2] = s2; s[3] = s3
long_jump_store(r) == State4(r.acc[0], r.acc[1], r.acc[2], r.acc[3])

\* what long_jump() leaves: the state and the number of (*this)() calls it made
long_jump_end(r) == [s |-> long_jump_store(r), calls |-> r.calls]

\* xoshiro256ss::long_jump(): uint64_t s0 = 0; s1 = 0; s2 = 0; s3 = 0; the loops; the stores
long_jump(cls, st) ==
    long_jump_end(long_jump_words(cls,
                     [acc |-> ZeroState, i |-> 0, b |-> 0, s |-> st, calls |-> 0]))

(***************************************************************************)
(* Construction                                                            *)
(***************************************************************************)
\* xoshiro256ss::xoshiro256ss(): a splitmix64 seeded with the clock's count,
\* called four times for s[0] .. s[3]
RECURSIVE seeder_outputs(_, _)
seeder_then(c, k) == <<c.ret>> \o seeder_outputs(c.x, k - 1)

\* the values k successive calls return on a splitmix64 whose member x is xx
seeder_outputs(xx, k) == IF k = 0 THEN << >> ELSE seeder_then(splitmix64_call(xx), k)

default_ctor_store(w) == State4(w[1], w[2], w[3], w[4])

default_ctor(clock) == default_ctor_store(seeder_outputs(clock, 4))

\* xoshiro256ss::xoshiro256ss(uint64_t s0, uint64_t s1, uint64_t s2, uint64_t s3)
explicit_ctor(s0, s1, s2, s3) == State4(s0, s1, s2, s3)

\* a slip in the test below: while(n==0)
uniform_rejects_zero_only(val) == val = ZeroWord

\* uniform(): while(n==0||n==std::numeric_limits<uint64_t>::max())
uniform_rejects(val) == val = ZeroWord \/ val = MaxWord

(***************************************************************************)
(* The inputs of the model                                                 *)
(***************************************************************************)
\* the most operations (output calls, jumps, long jumps, samples) on an instance
MaxOps == 2

\* the most calls of a splitmix64 instance
MaxSeederCalls == 8

\* values of high_resolution_clock::now().time_since_epoch().count()
ClockValues == { ZeroWord, U64(\H1664, \H4db3, \H8917, \Hc000) }

\* the word w for which rotl(w * 5, 7) * 9 is 2^64 - 1
AllOnesPreimage == U64(\H4fc7, \H1c71, \Hc71c, \H71c7)

\* arguments of the four-word constructor: a plain seed, the all-zero seed the
\* constructor does not reject, and a seed whose first output is 2^64 - 1
ExplicitSeeds ==
    { <<U64(0, 0, 0, 1), U64(0, 0, 0, 2), U64(0, 0, 0, 3), U64(0, 0, 0, 4)>>,
      <<ZeroWord, ZeroWord, ZeroWord, ZeroWord>>,
      <<U64(0, 0, 0, 1), AllOnesPreimage, U64(0, 0, 0, 3), U64(0, 0, 0, 4)>> }

\* words written to the public member s of a xoshiro256p, which has no constructor
\* taking them: s[0] + s[3] is 0 modulo 2^64, the first output uniform() rejects
AssignedSeeds ==
    { <<U64(0, 0, 0, 1), U64(0, 0, 0, 2), U64(0, 0, 0, 3), MaxWord>> }

\* seeds of splitmix64::splitmix64(uint64_t x0)
SeederSeeds ==
    { ZeroWord, MaxWord, U64(0, 0, 0, 1), U64(\H8000, 0, 0, 0),
      U64(\H1664, \H4db3, \H8917, \Hc000), U64(\H61c8, \H8646, \H80b5, \H83eb),
      U64(\Hffff, \Hffff, 0, 0), U64(\H0123, \H4567, \H89ab, \Hcdef),
      U64(0, 0, \Hffff, \Hffff), U64(\Hdead, \Hbeef, \Hcafe, \Hf00d),
      U64(\H5555, \H5555, \H5555, \H5555), U64(\Haaaa, \Haaaa, \Haaaa, \Haaaa) }

\* the instance as constructed, before any operation
Constructed(k, o, st) ==
    /\ kind = k
    /\ origin = o
    /\ seeded = st
    /\ s = st
    /\ twin = st
    /\ pc = "idle"
    /\ fn = "none"
    /\ n = ZeroWord
    /\ entry = st
    /\ tick = 0
    /\ ret = ZeroWord
    /\ sample = ZeroWord
    /\ calls = 0
    /\ trace = << >>

\* a splitmix64 as constructed from seed
SeederConstructed(seed) ==
    /\ x0 = seed
    /\ x = seed
    /\ z = ZeroWord
    /\ nth = 0

InitGenerator ==
    \/ \E w \in ExplicitSeeds :
          Constructed("xoshiro256ss", "explicit", explicit_ctor(w[1], w[2], w[3], w[4]))
    \/ \E k \in {"xoshiro256ss", "xoshiro256p"} : \E c \in ClockValues :
          Constructed(k, "default", default_ctor(c))
    \/ \E w \in AssignedSeeds :
          Constructed("xoshiro256p", "assigned", State4(w[1], w[2], w[3], w[4]))

Init == InitGenerator /\ SeederConstructed(ZeroWord)

SeederInit ==
    /\ Constructed("xoshiro256ss", "default", default_ctor(ZeroWord))
    /\ \E seed \in SeederSeeds : SeederConstructed(seed)

(***************************************************************************)
(* Operations                                                              *)
(***************************************************************************)
CanStart == pc = "idle" /\ Len(trace) < MaxOps

Completed(op, before) == trace' = Append(trace, [op |-> op, pre |-> before])

\* g(): the operator() of the instance's class
Call ==
    /\ CanStart
    /\ ret' = call_result(kind, s)
    /\ s' = call_update(kind, s)
    /\ twin' = ss_update(twin)
    /\ Completed("call", s)
    /\ UNCHANGED <<kind, origin, seeded, pc, fn, n, entry, tick, sample, calls>>
    /\ UNCHANGED seedervars

\* r is what jump() or long_jump() leaves
Jumped(r) == s' = r.s /\ calls' = r.calls

\* g.jump()
Jump ==
    /\ CanStart
    /\ Jumped(jump(kind, s))
    /\ twin' = jump("xoshiro256ss", twin).s
    /\ Completed("jump", s)
    /\ UNCHANGED <<kind, origin, seeded, pc, fn, n, entry, tick, ret, sample>>
    /\ UNCHANGED seedervars

\* g.long_jump()
LongJump ==
    /\ CanStart
    /\ Jumped(long_jump(kind, s))
    /\ twin' = long_jump("xoshiro256ss", twin).s
    /\ Completed("long_jump", s)
    /\ UNCHANGED <<kind, origin, seeded, pc, fn, n, entry, tick, ret, sample>>
    /\ UNCHANGED seedervars

\* n = (*this)(): v is the value the call returns
Drawn(v) == n' = v /\ ret' = v

\* uniform() up to the first test of its loop: uint64_t n = (*this)()
UniformEnter(f) ==
    /\ CanStart
    /\ pc' = "while"
    /\ fn' = f
    /\ entry' = s
    /\ tick' = 0
    /\ Drawn(call_result(kind, s))
    /\ s' = call_update(kind, s)
    /\ twin' = ss_update(twin)
    /\ UNCHANGED <<kind, origin, seeded, sample, calls, trace>>
    /\ UNCHANGED seedervars

\* g.uniform(low, high)
Uniform == UniformEnter("uniform")

\* g.exponential(mean): double r = uniform(0.0,1.0)
Exponential == UniformEnter("exponential")

\* g.geometric(success): double r = uniform(0.0,1.0)
Geometric == UniformEnter("geometric")

\* uniform(): the loop test holds, n = (*this)()
UniformRedraw ==
    /\ pc = "while"
    /\ uniform_rejects(n)
    /\ tick' = 1 - tick
    /\ Drawn(call_result(kind, s))
    /\ s' = call_update(kind, s)
    /\ twin' = ss_update(twin)
    /\ UNCHANGED <<kind, origin, seeded, pc, fn, entry, sample, calls, trace>>
    /\ UNCHANGED seedervars

\* uniform(): the loop test fails; the double it returns, and what exponential()
\* and geometric() make of it, is computed from n and the arguments alone
UniformReturn ==
    /\ pc = "while"
    /\ ~ uniform_rejects(n)
    /\ pc' = "idle"
    /\ fn' = "none"
    /\ tick' = 0
    /\ sample' = n
    /\ Completed("uniform", entry)
    /\ UNCHANGED <<kind, origin, seeded, s, twin, n, entry, ret, calls>>
    /\ UNCHANGED seedervars

Next ==
    \/ Call
    \/ Jump
    \/ LongJump
    \/ Uniform
    \/ Exponential
    \/ Geometric
    \/ UniformRedraw
    \/ UniformReturn

Spec == Init /\ [][Next]_vars

\* uniform() is sequential code: once in its loop it takes its next step
FairSpec == Init /\ [][Next]_vars /\ WF_vars(UniformRedraw) /\ WF_vars(UniformReturn)

\* r is what splitmix64::operator() leaves
SeederCalled(r) == x' = r.x /\ z' = r.ret

\* seeder(): splitmix64::operator()
SeederCall ==
    /\ nth < MaxSeederCalls
    /\ SeederCalled(splitmix64_call(x))
    /\ nth' = nth + 1
    /\ UNCHANGED x0
    /\ UNCHANGED genvars

SeederNext == SeederCall

SeederSpec == SeederInit /\ [][SeederNext]_vars

(***************************************************************************)
(* The arithmetic the properties are stated in: a word is read as its      *)
(* eight bytes, least significant first, and sums and products are worked  *)
(* out on the bytes, in base 256, the carry out of the top byte dropped.   *)
(***************************************************************************)
BitOf(a, i, weight) == IF i \in a THEN weight ELSE 0

\* the number 0 .. 255 in byte k of a
ByteOf(a, k) ==
    BitOf(a, 8 * k, 1) + BitOf(a, 8 * k + 1, 2) + BitOf(a, 8 * k + 2, 4)
    + BitOf(a, 8 * k + 3, 8) + BitOf(a, 8 * k + 4, 16) + BitOf(a, 8 * k + 5, 32)
    + BitOf(a, 8 * k + 6, 64) + BitOf(a, 8 * k + 7, 128)

Bytes(a) ==
    << ByteOf(a, 0), ByteOf(a, 1), ByteOf(a, 2), ByteOf(a, 3),
       ByteOf(a, 4), ByteOf(a, 5), ByteOf(a, 6), ByteOf(a, 7) >>

\* the word whose bytes, least significant first, are the numbers of d modulo 256
FromBytes(d) == { i \in 0 .. 63 : (d[(i \div 8) + 1] \div (2 ^ (i % 8))) % 2 = 1 }

\* the word of a number below 2^31
FromNat(m) == { i \in 0 .. 30 : (m \div (2 ^ i)) % 2 = 1 }

\* the carries of a column-wise sum: carry[1] = 0 and column k hands
\* (col[k] + carry[k]) \div 256 to column k + 1
RECURSIVE Carries(_, _)
Carries(col, sofar) ==
    IF Len(sofar) = Len(col) THEN sofar
    ELSE Carries(col, Append(sofar, (col[Len(sofar)] + sofar[Len(sofar)]) \div 256))

Carried(col, carry) ==
    << col[1] + carry[1], col[2] + carry[2], col[3] + carry[3], col[4] + carry[4],
       col[5] + carry[5], col[6] + carry[6], col[7] + carry[7], col[8] + carry[8] >>

Normalised(col) == FromBytes(Carried(col, Carries(col, <<0>>)))

SumColumns(p, q) ==
    << p[1] + q[1], p[2] + q[2], p[3] + q[3], p[4] + q[4],
       p[5] + q[5], p[6] + q[6], p[7] + q[7], p[8] + q[8] >>

\* (a + b) mod 2^64
AddMod64(a, b) == Normalised(SumColumns(Bytes(a), Bytes(b)))

\* column k of the long multiplication of p by q: the sum of p[i] * q[j], i + j = k
RECURSIVE ProductColumn(_, _, _, _)
ProductColumn(p, q, k, i) ==
    IF i > k THEN 0 ELSE p[i + 1] * q[k - i + 1] + ProductColumn(p, q, k, i + 1)

ProductColumns(p, q) ==
    << ProductColumn(p, q, 0, 0), ProductColumn(p, q, 1, 0), ProductColumn(p, q, 2, 0),
       ProductColumn(p, q, 3, 0), ProductColumn(p, q, 4, 0), ProductColumn(p, q, 5, 0),
       ProductColumn(p, q, 6, 0), ProductColumn(p, q, 7, 0) >>

\* (a * b) mod 2^64
MulMod64(a, b) == Normalised(ProductColumns(Bytes(a), Bytes(b)))

\* a ^ b: the bits set in one of a and b and not in both
BitXor(a, b) == (a \cup b) \ (a \cap b)

\* (a << k) mod 2^64 and the logical a >> k
ShiftLeft(a, k) == { i \in 0 .. 63 : (i - k) \in a }

ShiftRight(a, k) == { i \in 0 .. 63 : (i + k) \in a }

\* rotate_left: bit i of a goes to position (i + k) mod 64
rotate_left(a, k) == { (i + k) % 64 : i \in a }

\* the completed operation the instance did last, when it is idle
Last == trace[Len(trace)]

After(op) == pc = "idle" /\ trace # << >> /\ Last.op = op

\* the last two completed operations were first and then second
AfterTwo(first, second) ==
    /\ After(second)
    /\ Len(trace) >= 2
    /\ trace[Len(trace) - 1].op = first

\* the state before the earlier of the last two operations
Before2 == trace[Len(trace) - 1].pre

(***************************************************************************)
(* C1, C2: the two output functions and the transition                     *)
(***************************************************************************)
\* rotl(s1*5 mod 2^64, 7)*9 mod 2^64
ScrambledOutput(st) ==
    MulMod64(rotate_left(MulMod64(st[1], FromNat(5)), 7), FromNat(9))

\* (s0 + s3) mod 2^64
AdditiveOutput(st) == AddMod64(st[0], st[3])

\* the transition, statement by statement: t = s1 << 17; s2 ^= s0; s3 ^= s1;
\* s1 ^= s2; s0 ^= s3; s2 ^= t; s3 = rotl(s3, 45). With the intermediate values
\* written out, the words it leaves are
\*   s0 ^ s1 ^ s3,  s0 ^ s1 ^ s2,  s0 ^ s2 ^ (s1 << 17),  rotl(s1 ^ s3, 45)
Transition(st) ==
    LET t  == ShiftLeft(st[1], 17)
        a2 == BitXor(st[2], st[0])
        a3 == BitXor(st[3], st[1])
        a1 == BitXor(st[1], a2)
        a0 == BitXor(st[0], a3)
    IN (0 :> a0) @@ (1 :> a1) @@ (2 :> BitXor(a2, t)) @@ (3 :> rotate_left(a3, 45))

\* C1: a call of xoshiro256ss::operator() returns rotl(s1*5, 7)*9 of the state
\* before the call and leaves the transition of that state
C1_ScrambledCall ==
    (kind = "xoshiro256ss" /\ After("call")) =>
        /\ ret = ScrambledOutput(Last.pre)
        /\ s = Transition(Last.pre)

\* a call on the seed whose s1 makes both products wrap and the result 2^64 - 1
C1_Witness ==
    /\ kind = "xoshiro256ss"
    /\ After("call")
    /\ Last.pre[1] = AllOnesPreimage
    /\ ret = MaxWord

\* C2: a call of xoshiro256p::operator() returns s0 + s3 of the state before the
\* call and leaves what xoshiro256ss::operator() leaves from that state, and a
\* xoshiro256p holds the state of the xoshiro256ss started in the same state
\* and put through the same calls, jumps and long jumps
C2_AdditiveCall ==
    kind = "xoshiro256p" =>
        /\ s = twin
        /\ After("call") =>
              /\ ret = AdditiveOutput(Last.pre)
              /\ s = ss_update(Last.pre)
              /\ s = Transition(Last.pre)

\* a xoshiro256p called after a long jump
C2_Witness ==
    /\ kind = "xoshiro256p"
    /\ AfterTwo("long_jump", "call")
    /\ s = twin
    /\ seeded # ZeroState

(***************************************************************************)
(* C4: splitmix64                                                          *)
(***************************************************************************)
\* 0x9e3779b97f4a7c15, 0xbf58476d1ce4e5b9 and 0x94d049bb133111eb, byte by byte
Gamma == FromBytes(<<\H15, \H7c, \H4a, \H7f, \Hb9, \H79, \H37, \H9e>>)

FirstMultiplier == FromBytes(<<\Hb9, \He5, \He4, \H1c, \H6d, \H47, \H58, \Hbf>>)

SecondMultiplier == FromBytes(<<\Heb, \H11, \H31, \H13, \Hbb, \H49, \Hd0, \H94>>)

\* z = x; z = (z ^ (z >> 30)) * 0xbf58476d1ce4e5b9; z = (z ^ (z >> 27)) *
\* 0x94d049bb133111eb; the value is z ^ (z >> 31)
MixStep(zz, k, m) == MulMod64(BitXor(zz, ShiftRight(zz, k)), m)

MixLast(zz) == BitXor(zz, ShiftRight(zz, 31))

Mixed(xx) == MixLast(MixStep(MixStep(xx, 30, FirstMultiplier), 27, SecondMultiplier))

\* the first output of the generator seeded with 0, as published for SplitMix64
FirstOutputOfSeedZero == FromBytes(<<\Haf, \Hcd, \H1d, \H7b, \H39, \Ha8, \H20, \He2>>)

\* C4: after n >= 1 calls the splitmix64 state is x0 + n * 0x9e3779b97f4a7c15
\* modulo 2^64 and the n-th call returned the mix of that state
C4_SplitMixNth ==
    nth >= 1 =>
        /\ x = AddMod64(x0, MulMod64(Gamma, FromNat(nth)))
        /\ z = Mixed(x)
        /\ (x0 = ZeroWord /\ nth = 1) => z = FirstOutputOfSeedZero

\* the seed 0, called four times, as the default constructor calls its seeder
C4_Witness == x0 = ZeroWord /\ nth = 4 /\ z # ZeroWord

(***************************************************************************)
(* C9: the loops of jump() and long_jump()                                 *)
(***************************************************************************)
\* the states st, T(st), T(T(st)), ... that len - 1 output calls go through,
\* T the transition
RECURSIVE Orbit(_, _)
Orbit(st, len) ==
    IF len = 1 THEN <<st>>
    ELSE LET first == Orbit(st, len \div 2)
         IN first \o Orbit(Transition(first[Len(first)]), len - len \div 2)

\* the iterations whose bit is set, the bits of the table numbered from bit 0
\* of word 0 up to bit 63 of the last word
SetBits(table) ==
    { k \in 0 .. (64 * Len(table) - 1) : (k % 64) \in table[(k \div 64) + 1] }

\* the word-wise XOR of two states
XorStates(p, q) ==
    (0 :> BitXor(p[0], q[0])) @@ (1 :> BitXor(p[1], q[1]))
    @@ (2 :> BitXor(p[2], q[2])) @@ (3 :> BitXor(p[3], q[3]))

\* the XOR of the states orbit[k + 1], k in sel and lo <= k <= hi, by halves
RECURSIVE XorOver(_, _, _, _)
XorOver(orbit, sel, lo, hi) ==
    IF lo = hi THEN (IF lo \in sel THEN orbit[lo + 1] ELSE ZeroState)
    ELSE XorStates(XorOver(orbit, sel, lo, (lo + hi) \div 2),
                   XorOver(orbit, sel, ((lo + hi) \div 2) + 1, hi))

\* the XOR of the states orbit[k + 1], k in sel
XorOfStates(orbit, sel) == XorOver(orbit, sel, 0, Len(orbit) - 1)

\* what the loop leaves in the accumulator: the XOR of the states the instance
\* was in at the iterations whose bit is set, iteration k finding it k calls on
LoopOutcome(table, st) == XorOfStates(Orbit(st, 64 * Len(table)), SetBits(table))

\* C9: jump() and long_jump() run through the 256 bits of their table from bit 0
\* of word 0, XOR into an accumulator that starts at zero the state as it stands
\* at each set bit, advance the state by one call at every bit, and at the end
\* replace the state by the accumulator; only the table differs
C9_JumpLoop ==
    /\ After("jump") =>
          s = LoopOutcome(JUMP, Last.pre) /\ calls = 64 * Len(JUMP)
    /\ After("long_jump") =>
          s = LoopOutcome(LONG_JUMP, Last.pre) /\ calls = 64 * Len(LONG_JUMP)

\* a long jump done after a jump, the instance a xoshiro256p
C9_Witness ==
    /\ kind = "xoshiro256p"
    /\ AfterTwo("jump", "long_jump")
    /\ calls = 256
    /\ s # Last.pre

(***************************************************************************)
(* C10, C8: jumps, long jumps and output calls in either order             *)
(***************************************************************************)
\* C10: an output call and then jump() leave the state that jump() and then an
\* output call leave from the same state, and likewise for long_jump()
C10_JumpCommutesWithCall ==
    /\ AfterTwo("call", "jump") => s = call_update(kind, jump(kind, Before2).s)
    /\ AfterTwo("jump", "call") => s = jump(kind, call_update(kind, Before2)).s
    /\ AfterTwo("call", "long_jump") => s = call_update(kind, long_jump(kind, Before2).s)
    /\ AfterTwo("long_jump", "call") => s = long_jump(kind, call_update(kind, Before2)).s

\* a xoshiro256p that was called and then jumped
C10_Witness ==
    /\ kind = "xoshiro256p"
    /\ AfterTwo("call", "jump")
    /\ Before2 # ZeroState
    /\ s # Before2

\* C8 as amended: long_jump() then jump() leaves the same state as jump() then
\* long_jump() from the same starting state
C8_JumpOrdersAgree ==
    /\ AfterTwo("long_jump", "jump") => s = long_jump(kind, jump(kind, Before2).s).s
    /\ AfterTwo("jump", "long_jump") => s = jump(kind, long_jump(kind, Before2).s).s

\* a long jump and then a jump from a state that is not all zero
C8_Witness ==
    /\ AfterTwo("long_jump", "jump")
    /\ Before2 # ZeroState
    /\ s # Before2
    /\ s # Last.pre

\* C8 as stated: from a starting state that is not all zero, long_jump() then
\* jump() leaves a state different from the one jump() then long_jump() leaves
C8_JumpOrdersDiffer ==
    (AfterTwo("long_jump", "jump") /\ Before2 # ZeroState) =>
        s # long_jump(kind, jump(kind, Before2).s).s

(***************************************************************************)
(* C3: the length of the jumps.  The transition T is linear over GF(2), so *)
(* a polynomial q in T, the XOR of the powers T^e of its terms, is applied *)
(* to a state by XORing the states e calls on.  When CharPoly(T) maps st   *)
(* to zero, so does every multiple of CharPoly, and then T^m(st) is r(T)   *)
(* applied to st for r = x^m mod CharPoly.  A polynomial over GF(2) is the *)
(* set of the exponents of its terms.                                      *)
(***************************************************************************)
\* the characteristic polynomial of T, of degree 256
CharPoly ==
    { 0, 12, 13, 14, 15, 20, 21, 22, 23, 28, 29, 31, 32, 33, 35, 37, 40, 41,
      42, 43, 45, 46, 48, 52, 56, 58, 59, 60, 63, 65, 66, 67, 68, 70, 73, 75,
      76, 80, 82, 83, 84, 85, 86, 87, 89, 90, 91, 94, 95, 96, 97, 99, 101,
      119, 121, 128, 130, 135, 136, 137, 138, 139, 140, 143, 144, 146, 149,
      153, 154, 157, 160, 161, 162, 163, 166, 167, 168, 170, 171, 173, 174,
      175, 178, 180, 181, 183, 186, 192, 195, 196, 200, 201, 203, 206, 207,
      209, 210, 211, 212, 213, 216, 217, 218, 219, 220, 221, 226, 227, 228,
      229, 238, 239, 240, 241, 256 }

Degree(q) == CHOOSE e \in q : \A f \in q : f <= e

\* x * q mod CharPoly, q of smaller degree than CharPoly
TimesX(q) ==
    LET up == { e + 1 : e \in q }
    IN IF Degree(CharPoly) \in up THEN (up \ CharPoly) \cup (CharPoly \ up) ELSE up

\* q, x^2 * q, x^4 * q, ... mod CharPoly: len of them
RECURSIVE TimesEvenPowers(_, _)
TimesEvenPowers(q, len) ==
    IF len = 1 THEN <<q>>
    ELSE LET first == TimesEvenPowers(q, len \div 2)
         IN first \o TimesEvenPowers(TimesX(TimesX(first[Len(first)])), len - len \div 2)

\* x^(2e) mod CharPoly at index e + 1, e below the degree of CharPoly
EvenPowers == TimesEvenPowers({0}, Degree(CharPoly))

\* the sum of x^(2e) mod CharPoly over the terms x^e of q, lo <= e <= hi, by halves
RECURSIVE SquareOver(_, _, _)
SquareOver(q, lo, hi) ==
    IF lo = hi THEN (IF lo \in q THEN EvenPowers[lo + 1] ELSE {})
    ELSE BitXor(SquareOver(q, lo, (lo + hi) \div 2),
                SquareOver(q, ((lo + hi) \div 2) + 1, hi))

\* q^2 mod CharPoly: over GF(2) the square of a sum is the sum of the squares
Square(q) == SquareOver(q, 0, Degree(CharPoly) - 1)

\* q squared k times: q^(2^k) mod CharPoly; every power of 0 is 0
RECURSIVE SquaredTimes(_, _)
SquaredTimes(q, k) ==
    IF k = 0 \/ q = {} THEN q
    ELSE IF k = 1 THEN Square(q)
    ELSE SquaredTimes(SquaredTimes(q, k \div 2), k - k \div 2)

\* x^(2^128) mod CharPoly and x^(2^192) mod CharPoly
Pow128 == SquaredTimes({1}, 128)

Pow192 == SquaredTimes(Pow128, 64)

\* q(T) applied to st
ApplyPoly(q, st) == XorOfStates(Orbit(st, Degree(q) + 1), q)

\* C3: jump() leaves the state 2^128 output calls would leave and long_jump()
\* the state 2^192 output calls would leave
C3_JumpLength ==
    /\ After("jump") =>
          /\ ApplyPoly(CharPoly, Last.pre) = ZeroState
          /\ s = ApplyPoly(Pow128, Last.pre)
    /\ After("long_jump") =>
          /\ ApplyPoly(CharPoly, Last.pre) = ZeroState
          /\ s = ApplyPoly(Pow192, Last.pre)

\* a jump from the state a long jump left, a default-constructed instance
C3_Witness ==
    /\ origin = "default"
    /\ AfterTwo("long_jump", "jump")
    /\ s # Last.pre
    /\ s # ZeroState

(***************************************************************************)
(* C5: the all-zero state                                                  *)
(***************************************************************************)
\* C5 as amended: the default constructor leaves a state that is not all zero,
\* and an instance whose state was not all zero when it was set never holds
\* the all-zero state, whatever calls, jumps, long jumps and samples follow
C5_NonZeroStaysNonZero ==
    /\ origin = "default" => seeded # ZeroState
    /\ seeded # ZeroState => s # ZeroState

\* an instance built from four words, not all zero, that jumped and was called
C5_Witness ==
    /\ origin = "explicit"
    /\ seeded # ZeroState
    /\ AfterTwo("jump", "call")
    /\ s # ZeroState

\* C5 as stated: the four state words are never all zero
C5_NeverAllZero == s # ZeroState

(***************************************************************************)
(* C7: uniform()                                                           *)
(***************************************************************************)
\* the most draws any uniform() of the model makes
MaxDraws == 3

\* the value the operator() of class cls returns in state st
OutputOf(cls, st) ==
    IF cls = "xoshiro256p" THEN AdditiveOutput(st) ELSE ScrambledOutput(st)

Edge(val) == val \in {ZeroWord, MaxWord}

\* the uniform() that completed last made k draws from the output function of
\* class cls: its n is the k-th value from the state it was entered in, the
\* values before it were all 0 or 2^64 - 1, n is neither, and the state is k
\* transitions on
DrewFrom(cls, orbit, k) ==
    /\ sample = OutputOf(cls, orbit[k])
    /\ ~ Edge(sample)
    /\ \A j \in 1 .. (k - 1) : Edge(OutputOf(cls, orbit[j]))
    /\ s = orbit[k + 1]

UniformDrewFrom(cls) ==
    \E k \in 1 .. MaxDraws : DrewFrom(cls, Orbit(Last.pre, k + 1), k)

\* C7 as amended: uniform() draws from the operator() of the instance's own
\* class, rotl(s1*5, 7)*9 on a xoshiro256ss and s0 + s3 on a xoshiro256p, and
\* the n it maps is the first such value that is neither 0 nor 2^64 - 1, the
\* state advanced by one transition per draw
C7_UniformDrawsOwnOutput == After("uniform") => UniformDrewFrom(kind)

\* a xoshiro256p whose first sum s0 + s3 wrapped to 0 and was drawn again
C7_Witness ==
    /\ kind = "xoshiro256p"
    /\ After("uniform")
    /\ Edge(AdditiveOutput(Last.pre))
    /\ ~ Edge(sample)

\* C7 as stated: on either class uniform() draws the values rotl(s1*5, 7)*9
C7_UniformDrawsScrambled == After("uniform") => UniformDrewFrom("xoshiro256ss")

(***************************************************************************)
(* C6: termination                                                         *)
(***************************************************************************)
\* C6 as amended: jump() and long_jump() end after 256 state advances, and on
\* an instance whose state was not all zero when it was set, uniform(),
\* exponential() and geometric() leave the loop of uniform() and return
C6_TerminatesFromNonZero ==
    /\ []((After("jump") \/ After("long_jump")) => calls = 64 * Len(JUMP))
    /\ (pc = "while" /\ seeded # ZeroState) ~> (pc = "idle")

\* a uniform() that found 2^64 - 1 first, drew again and returned
C6_Witness ==
    /\ After("uniform")
    /\ seeded # ZeroState
    /\ ScrambledOutput(Last.pre) = MaxWord
    /\ s = Transition(Transition(Last.pre))

\* C6 as stated: from every state the constructors produce, a uniform(),
\* exponential() or geometric() that has begun returns
C6_AlwaysTerminates == (pc = "while") ~> (pc = "idle")

=============================================================================
